---- MODULE Spec2Model ----
(***************************************************************************)
(* Model of internal/network/network_handler.py: the retrying request      *)
(* executor NetworkHandler.make_request and its helper _handle_retry.      *)
(*                                                                         *)
(* Time is counted in ticks: one second is TicksPerSecond ticks, so that   *)
(* a fractional base_delay (0.5 s) and the truncation done by int() are    *)
(* both representable with integers.                                       *)
(*                                                                         *)
(* NetworkFailureHandler (with_fallback, set_fallback_data,                *)
(* get_with_cache) is modelled under CoordSpec: each of its calls is one   *)
(* action, and the make_request call it contains is summarised by the      *)
(* value make_request returns.                                             *)
(***************************************************************************)
EXTENDS Integers, Sequences, FiniteSets, TLC

\* ---------------------------------------------------------------- bounds
MaxRetriesBound == 2
MaxBaseDelay == 3
TicksPerSecond == 2

\* ------------------------------------------------------- python values
\* Python's None, the "absence" signal of make_request.
None == [py |-> "None"]

\* json.loads as response.json() applies it to the body text: the parsed
\* value, or a ValueError when the text is not JSON.
JsonLoads(text) ==
    CASE text = "{\"status\": \"success\"}" -> [ok |-> TRUE, value |-> [status |-> "success"]]
      [] text = "{\"id\": 123}"               -> [ok |-> TRUE, value |-> [id |-> 123]]
      [] text = "null"                        -> [ok |-> TRUE, value |-> None]
      [] OTHER                                -> [ok |-> FALSE, value |-> None]

\* int(str): the integer a decimal literal denotes, or a ValueError.
IntOfStr(s) ==
    CASE s = "0"  -> [ok |-> TRUE, val |-> 0]
      [] s = "1"  -> [ok |-> TRUE, val |-> 1]
      [] s = "2"  -> [ok |-> TRUE, val |-> 2]
      [] s = "-1" -> [ok |-> TRUE, val |-> -1]
      [] OTHER    -> [ok |-> FALSE, val |-> 0]

\* int(float) for a non-negative float given in ticks: whole seconds,
\* truncated towards zero.
IntOfFloat(ticks) == [ok |-> TRUE, val |-> ticks \div TicksPerSecond]

\* ---------------------------------------------------- transport outcomes
BodyTexts == {"{\"status\": \"success\"}", "{\"id\": 123}", "null", "OK", ""}
RetryAfterTexts == {"0", "1", "2", "-1", "1.5", "soon"}
NoHeaders == [k \in {} |-> ""]
HeaderSets == {NoHeaders} \cup {[k \in {"Retry-After"} |-> v] : v \in RetryAfterTexts}

SuccessResponses ==
    {[kind |-> "response", status_code |-> s, text |-> t, headers |-> NoHeaders] :
        s \in {200, 201, 399}, t \in BodyTexts}
RateLimitResponses ==
    {[kind |-> "response", status_code |-> 429, text |-> "", headers |-> h] :
        h \in HeaderSets}
ErrorResponses ==
    {[kind |-> "response", status_code |-> s, text |-> "err", headers |-> NoHeaders] :
        s \in {400, 404, 500}}
Responses == SuccessResponses \cup RateLimitResponses \cup ErrorResponses

Raised(k) == [kind |-> k, status_code |-> 0, text |-> "", headers |-> NoHeaders]

\* the public entry points of NetworkHandler and the HTTP methods
EntryPoints == {"make_request", "get", "post", "put", "delete"}
Methods == {"GET", "POST", "PUT", "DELETE"}

\* the method get/post/put/delete pass to make_request; make_request itself
\* takes the method m its caller gives
EntryMethod(e, m) ==
    CASE e = "get"    -> "GET"
      [] e = "post"   -> "POST"
      [] e = "put"    -> "PUT"
      [] e = "delete" -> "DELETE"
      [] OTHER        -> m

VARIABLES max_retries, base_delay, timeout, call, pc, attempt, result, transport_log, sleep_log

config == <<max_retries, base_delay, timeout>>

\* NetworkFailureHandler: self.fallback_data, self._cache (empty while the
\* attribute is missing), the payloads get_with_cache has fetched from the
\* network so far, and the last call with what it returned
VARIABLES fallback_data, cache, fetched, last

\* hasattr(self, '_cache'): the attribute is created by the first store
VARIABLE has_cache

coordVars == <<fallback_data, cache, has_cache, fetched, last>>

\* two threads inside get_with_cache on one NetworkFailureHandler: where
\* each is, its arguments, its local result and what it returned, and how
\* many successful GETs the network has served per cache key
VARIABLES t_pc, t_args, t_result, t_ret, get_count

raceVars == <<t_pc, t_args, t_result, t_ret, get_count>>

\* two make_request calls interleaved on one NetworkHandler: the locals of
\* the call that is running are call .. sleep_log above, those of the
\* suspended call are in saved; running names the call that is running
VARIABLES saved, running

concVars == <<saved, running>>

\* WorkflowManager: self.config, self.tickets, self.jobs, and the last call
\* with its outcome
VARIABLES wf_config, tickets, jobs, wf_last

wfVars == <<wf_config, tickets, jobs, wf_last>>

\* the state of the components an action does not belong to
restVars == <<raceVars, concVars, wfVars>>

\* ----------------------------------------------- coordinator: values
EmptyDict == [k \in {} |-> ""]
Urls == {"http://example.com", "http://api.example.com/tickets"}
ParamsSet == {None, [page |-> "1"]}
FallbackPayloads == {EmptyDict, [tickets |-> "fallback-123"]}
NoCall == [op |-> "none", url |-> "", params |-> None, fallback |-> None,
           outcome |-> None, net |-> 0, ret |-> None]

\* NetworkFailureHandler.__init__
CoordStart ==
    /\ fallback_data = EmptyDict
    /\ cache = EmptyDict
    /\ has_cache = FALSE
    /\ fetched = EmptyDict
    /\ last = NoCall

\* --------------------------------------- the other components: values
\* timeout: float = 10.0, in seconds
DefaultTimeout == 10

Threads == {1, 2}
NoArgs == [url |-> "", params |-> None]

\* no thread has entered get_with_cache
RaceStart ==
    /\ t_pc = [t \in Threads |-> "idle"]
    /\ t_args = [t \in Threads |-> NoArgs]
    /\ t_result = [t \in Threads |-> None]
    /\ t_ret = [t \in Threads |-> None]
    /\ get_count = [k \in {} |-> 0]

\* the locals of a make_request call that has not started
IdleFrame ==
    [call |-> [entry |-> "none", method |-> "none"], pc |-> "idle", attempt |-> 0,
     result |-> None, transport_log |-> <<>>, sleep_log |-> <<>>]

ConcStart ==
    /\ saved = IdleFrame
    /\ running = 1

\* the configuration _load_config falls back to when there is no file
DefaultMaxTickets == 100
DefaultJobTypes == {"processing", "validation", "notification"}
DefaultConfig == [max_tickets |-> DefaultMaxTickets, job_types |-> DefaultJobTypes]
NoWfCall == [op |-> "none", arg |-> 0, job_type |-> "", raised |-> FALSE]

\* WorkflowManager.__init__ with the configuration cfg
WorkflowStart(cfg) ==
    /\ wf_config = cfg
    /\ tickets = [i \in {} |-> ""]
    /\ jobs = [i \in {} |-> ""]
    /\ wf_last = NoWfCall

\* ------------------------------------------------------------- helpers
\* variants of the loop condition: one iteration too many, one too few
LoopCondOneMore(a) == a <= max_retries + 1
LoopCondOneLess(a) == a < max_retries

\* while attempt <= self.max_retries, with a the value of attempt
LoopCond(a) == a <= max_retries

\* where control is after the loop condition was tested with attempt = a:
\* in the loop body, or at the return None that follows the loop
AfterLoopTest(a) == IF LoopCond(a) THEN "loop" ELSE "done"

\* variants of the backoff: exponent off by one, no exponential growth
BackoffDelayExpOff(a) == base_delay * (2 ^ a)
BackoffDelayFlat(a) == base_delay

\* delay = self.base_delay * (2 ** (attempt - 1)), in ticks
BackoffDelay(a) == base_delay * (2 ^ (a - 1))

\* _handle_retry(attempt, exception): the sleeps it performs
HandleRetry(a) ==
    IF a <= max_retries
    THEN <<[after |-> a, delay |-> BackoffDelay(a)]>>
    ELSE <<>>

\* variants of the 429 test: every status from 429 up, a mistyped code
IsRateLimitedAndAbove(r) == r.status_code >= 429
IsRateLimitedTypo(r) == r.status_code = 492

\* response.status_code == 429
IsRateLimited(r) == r.status_code = 429

\* response.status_code < 400
IsSuccess(r) == r.status_code < 400

\* variant of the Retry-After lookup: the header is never read
RetryAfterIgnoresHeader(r) == IntOfFloat(base_delay)

\* int(response.headers.get('Retry-After', self.base_delay)), in seconds
RetryAfter(r) ==
    IF "Retry-After" \in DOMAIN r.headers
    THEN IntOfStr(r.headers["Retry-After"])
    ELSE IntOfFloat(base_delay)

\* variant of the success payload: the body is never parsed
SuccessPayloadUnparsed(r) == [status |-> "success", data |-> r.text]

\* try: return response.json()  except ValueError: return {...}
SuccessPayload(r) ==
    IF JsonLoads(r.text).ok
    THEN JsonLoads(r.text).value
    ELSE [status |-> "success", data |-> r.text]

\* ---------------------------------------------------------------- Init
NetworkStart ==
    /\ max_retries \in 0..MaxRetriesBound
    /\ base_delay \in 1..MaxBaseDelay
    /\ timeout = DefaultTimeout * TicksPerSecond
    /\ call = [entry |-> "none", method |-> "none"]
    /\ pc = "idle"
    /\ attempt = 0
    /\ result = None
    /\ transport_log = <<>>
    /\ sleep_log = <<>>
    /\ CoordStart
    /\ RaceStart
    /\ ConcStart

\* the network handlers as constructed, and a WorkflowManager that found
\* no configuration file
Init == NetworkStart /\ WorkflowStart(DefaultConfig)

\* ------------------------------------------------------------- actions
\* a call of get/post/put/delete or of make_request itself; entry of
\* make_request: attempt = 0, first test of the loop condition
CallOf(entries, methods) ==
    /\ pc \in {"idle", "done"}
    /\ call' \in {[entry |-> e, method |-> EntryMethod(e, m)] :
                      e \in entries, m \in methods}
    /\ pc' = AfterLoopTest(0)
    /\ attempt' = 0
    /\ result' = None
    /\ transport_log' = <<>>
    /\ sleep_log' = <<>>
    /\ UNCHANGED <<config, coordVars, restVars>>

Call == CallOf(EntryPoints, Methods)

\* one loop iteration whose response has status < 400
AttemptSuccess ==
    \E r \in Responses :
        /\ pc = "loop"
        /\ IsSuccess(r)
        /\ attempt' = attempt + 1
        /\ transport_log' = Append(transport_log, r)
        /\ result' = SuccessPayload(r)
        /\ pc' = "done"
        /\ UNCHANGED <<config, coordVars, restVars, call, sleep_log>>

\* one loop iteration whose response is a 429; after the sleep, continue
\* re-tests the loop condition, and the code after the loop returns None
AttemptRateLimited ==
    \E r \in Responses :
        /\ pc = "loop"
        /\ ~IsSuccess(r) /\ IsRateLimited(r)
        /\ attempt' = attempt + 1
        /\ transport_log' = Append(transport_log, r)
        /\ IF RetryAfter(r).ok /\ RetryAfter(r).val >= 0
           THEN /\ sleep_log' = Append(sleep_log,
                        [after |-> attempt + 1,
                         delay |-> RetryAfter(r).val * TicksPerSecond])
                /\ pc' = AfterLoopTest(attempt + 1)
                /\ result' = None
           ELSE \* ValueError from int() or time.sleep(): except Exception
                /\ result' = None
                /\ pc' = "done"
                /\ UNCHANGED sleep_log
        /\ UNCHANGED <<config, coordVars, restVars, call>>

\* one loop iteration whose response is another status >= 400
AttemptHttpError ==
    \E r \in Responses :
        /\ pc = "loop"
        /\ ~IsSuccess(r) /\ ~IsRateLimited(r)
        /\ attempt' = attempt + 1
        /\ transport_log' = Append(transport_log, r)
        /\ result' = None
        /\ pc' = "done"
        /\ UNCHANGED <<config, coordVars, restVars, call, sleep_log>>

\* the body shared by the three except clauses that call _handle_retry;
\* the loop condition is tested next, and the code after the loop returns None
Retried(k) ==
    /\ pc = "loop"
    /\ attempt' = attempt + 1
    /\ transport_log' = Append(transport_log, Raised(k))
    /\ sleep_log' = sleep_log \o HandleRetry(attempt + 1)
    /\ pc' = AfterLoopTest(attempt + 1)
    /\ result' = None
    /\ UNCHANGED <<config, coordVars, restVars, call>>

\* except Timeout
AttemptTimeout == Retried("Timeout")

\* except ConnectionError
AttemptConnectionError == Retried("ConnectionError")

\* except RequestException
AttemptRequestException == Retried("RequestException")

\* variant of the last except clause: it retries like the other three
AttemptUnexpectedRetried == Retried("Exception")

\* except Exception
AttemptUnexpected ==
    /\ pc = "loop"
    /\ attempt' = attempt + 1
    /\ transport_log' = Append(transport_log, Raised("Exception"))
    /\ result' = None
    /\ pc' = "done"
    /\ UNCHANGED <<config, coordVars, restVars, call, sleep_log>>

Next ==
    \/ Call
    \/ AttemptSuccess
    \/ AttemptRateLimited
    \/ AttemptHttpError
    \/ AttemptTimeout
    \/ AttemptConnectionError
    \/ AttemptRequestException
    \/ AttemptUnexpected

execVars == <<max_retries, base_delay, timeout, call, pc, attempt, result, transport_log, sleep_log>>
vars == <<execVars, coordVars, restVars>>

Spec == Init /\ [][Next]_vars

\* ------------------------------------- make_request calls, interleaved
\* Two make_request calls run on one NetworkHandler, one statement at a
\* time: Switch suspends the running call and resumes the other one. What
\* is suspended and resumed is the call's frame, that is its locals; the
\* attributes of the handler (config) are shared by both calls.
RunningFrame ==
    [call |-> call, pc |-> pc, attempt |-> attempt, result |-> result,
     transport_log |-> transport_log, sleep_log |-> sleep_log]

\* variant: attempt is an attribute of the handler instead of a local
ResumedAttemptShared(f) == attempt

\* attempt of the resumed call: a local of make_request, kept in its frame
ResumedAttempt(f) == f.attempt

Switch ==
    /\ saved' = RunningFrame
    /\ running' = 3 - running
    /\ call' = saved.call
    /\ pc' = saved.pc
    /\ attempt' = ResumedAttempt(saved)
    /\ result' = saved.result
    /\ transport_log' = saved.transport_log
    /\ sleep_log' = saved.sleep_log
    /\ UNCHANGED <<config, coordVars, raceVars, wfVars>>

ConcCall == CallOf({"get"}, {"GET"})

ConcNext ==
    \/ ConcCall
    \/ AttemptSuccess
    \/ AttemptRateLimited
    \/ AttemptHttpError
    \/ AttemptTimeout
    \/ AttemptConnectionError
    \/ AttemptRequestException
    \/ AttemptUnexpected
    \/ Switch

\* NetworkHandler(max_retries=1, base_delay=0.5)
ConcInit == Init /\ max_retries = 1 /\ base_delay = 1

ConcSpec == ConcInit /\ [][ConcNext]_vars

\* ---------------------------------------------- coordinator: helpers
\* what make_request can return for the bodies the coordinator's transport
\* serves: None, or the payload of a response with status < 400
CoordBodies == {"{\"status\": \"success\"}", "{\"id\": 123}"}
ExecutorResults ==
    {None} \cup {SuccessPayload(r) : r \in {x \in SuccessResponses : x.text \in CoordBodies}}

\* variant of the dict store: the other keys are dropped
PutAlone(d, k, v) == [x \in {k} |-> v]

\* d[k] = v on a dict
Put(d, k, v) == [x \in DOMAIN d \cup {k} |-> IF x = k THEN v ELSE d[x]]

\* truth value of an Optional[Dict]: None and the empty dict are false
Truthy(d) == d # None /\ DOMAIN d # {}

\* a dict with several keys, given by its items in insertion order
InOrder(items) == [items |-> items]
ItemA == <<"a", "1">>
ItemB == <<"b", "2">>

\* str(params): a dict prints its items in insertion order
PyStr(params) ==
    CASE params = None                        -> "None"
      [] params = EmptyDict                   -> "{}"
      [] params = [page |-> "1"]              -> "{'page': '1'}"
      [] params = InOrder(<<ItemA, ItemB>>)   -> "{'a': '1', 'b': '2'}"
      [] params = InOrder(<<ItemB, ItemA>>)   -> "{'b': '2', 'a': '1'}"

\* the query parameters requests.request is given for params: make_request
\* replaces None by {}, and a mapping is its set of items
ParamsMapping(params) ==
    IF params = None \/ params = EmptyDict THEN {}
    ELSE IF "items" \in DOMAIN params
         THEN {params.items[i] : i \in DOMAIN params.items}
         ELSE {<<k, params[k]>> : k \in DOMAIN params}

\* cache_key = f"{url}_{str(params)}"
CacheKey(url, params) == <<url, "_", PyStr(params)>>

\* variant of the cache test: the cache is never hit
CacheHitNever(key) == FALSE

\* hasattr(self, '_cache') and cache_key in self._cache
CacheHit(key) == has_cache /\ key \in DOMAIN cache

\* variant of the fallback lookup: any registered URL serves
FallbackEntryAnyUrl(url) ==
    IF DOMAIN fallback_data # {}
    THEN fallback_data[CHOOSE u \in DOMAIN fallback_data : u # url \/ DOMAIN fallback_data = {url}]
    ELSE None

\* if result is None and url in self.fallback_data: self.fallback_data[url];
\* None when the URL has no entry
FallbackEntry(url) ==
    IF url \in DOMAIN fallback_data THEN fallback_data[url] ELSE None

\* variant of the caching test: everything is stored
ShouldCacheAlways(res) == TRUE

\* if result is not None: (store in the cache)
ShouldCache(res) == res # None

\* variant of the final return: the result as it is
OrNoDataMissing(res) == res

\* return result if result is not None else {"status": "error", ...}
OrNoData(res) ==
    IF res # None THEN res ELSE [status |-> "error", message |-> "No data available"]

\* the marker with_fallback synthesizes
RequestFailedMarker ==
    [status |-> "error", message |-> "Network request failed", fallback |-> TRUE]

\* variant of with_fallback's return: the fallback table is consulted when
\* the call brings no fallback of its own
WithFallbackReturnStored(u, fb, out) ==
    IF out = None
    THEN IF Truthy(fb) THEN fb
         ELSE IF FallbackEntry(u) # None THEN FallbackEntry(u) ELSE RequestFailedMarker
    ELSE out

\* what with_fallback returns for the fallback argument fb when make_request
\* returned out
WithFallbackReturn(u, fb, out) ==
    IF out = None
    THEN IF Truthy(fb) THEN fb ELSE RequestFailedMarker
    ELSE out

\* ---------------------------------------------- coordinator: actions
\* set_fallback_data(url, data)
SetFallbackData ==
    \E u \in Urls, d \in FallbackPayloads :
        /\ fallback_data' = Put(fallback_data, u, d)
        /\ last' = [op |-> "set_fallback_data", url |-> u, params |-> None,
                    fallback |-> d, outcome |-> None, net |-> 0, ret |-> None]
        /\ UNCHANGED <<execVars, restVars, cache, has_cache, fetched>>

\* with_fallback(method, url, fallback_data, ...): out is what make_request
\* returns
WithFallback ==
    \E u \in Urls, fb \in {None} \cup FallbackPayloads, out \in ExecutorResults :
        /\ last' = [op |-> "with_fallback", url |-> u, params |-> None,
                    fallback |-> fb, outcome |-> out, net |-> 1,
                    ret |-> WithFallbackReturn(u, fb, out)]
        /\ UNCHANGED <<execVars, restVars, fallback_data, cache, has_cache, fetched>>

\* get_with_cache(url, headers, params): out is what network_handler.get
\* returns, or would return were it called
GetWithCacheOf(urls, paramsSet) ==
    \E u \in urls, p \in paramsSet, out \in ExecutorResults :
        LET key == CacheKey(u, p)
            res == IF out = None THEN FallbackEntry(u) ELSE out
        IN  IF CacheHit(key)
            THEN /\ last' = [op |-> "get_with_cache", url |-> u, params |-> p,
                             fallback |-> None, outcome |-> out, net |-> 0,
                             ret |-> cache[key]]
                 /\ UNCHANGED <<execVars, restVars, fallback_data, cache, has_cache, fetched>>
            ELSE /\ cache' = IF ShouldCache(res) THEN Put(cache, key, res) ELSE cache
                 /\ has_cache' = (has_cache \/ ShouldCache(res))
                 /\ fetched' = IF out # None THEN Put(fetched, key, out) ELSE fetched
                 /\ last' = [op |-> "get_with_cache", url |-> u, params |-> p,
                             fallback |-> None, outcome |-> out, net |-> 1,
                             ret |-> OrNoData(res)]
                 /\ UNCHANGED <<execVars, restVars, fallback_data>>

GetWithCache == GetWithCacheOf(Urls, ParamsSet)

CoordNext ==
    \/ SetFallbackData
    \/ WithFallback
    \/ GetWithCache

\* workflow_fetch_tickets of the integration test, applied to what
\* get_with_cache returned: "degraded" when its status is "error"
WorkflowFetchTickets(got) ==
    IF "status" \in DOMAIN got /\ got.status = "error"
    THEN [status |-> "degraded"]
    ELSE [status |-> "success"]

\* a NetworkFailureHandler around NetworkHandler(max_retries=1, base_delay=0.5)
CoordInit == Init /\ max_retries = 1 /\ base_delay = 1

CoordSpec == CoordInit /\ [][CoordNext]_vars

\* ------------------------------------------- the cache key (fingerprint)
\* get_with_cache calls on one URL whose params are absent, empty, or the
\* same two items in either insertion order
FingerprintParams ==
    {None, EmptyDict, InOrder(<<ItemA, ItemB>>), InOrder(<<ItemB, ItemA>>)}

GetWithCacheFingerprint == GetWithCacheOf({"http://example.com"}, FingerprintParams)

FingerprintNext == GetWithCacheFingerprint

FingerprintSpec == CoordInit /\ [][FingerprintNext]_vars

\* ----------------------------- get_with_cache, statement by statement
\* Two threads call get_with_cache on one NetworkFailureHandler; a step is
\* one statement that touches the shared cache or the network, together
\* with the statements on locals that follow it.
MaxGetsPerKey == 2

KeyOf(t) == CacheKey(t_args[t].url, t_args[t].params)
KeyErrorRaised == [raised |-> "KeyError"]
GetCount(k) == IF k \in DOMAIN get_count THEN get_count[k] ELSE 0

\* the call, and line 258: cache_key = f"{url}_{str(params)}"
Enter(t) ==
    /\ t_pc[t] \in {"idle", "returned"}
    /\ \E u \in Urls : t_args' = [t_args EXCEPT ![t] = [url |-> u, params |-> None]]
    /\ t_result' = [t_result EXCEPT ![t] = None]
    /\ t_ret' = [t_ret EXCEPT ![t] = None]
    /\ t_pc' = [t_pc EXCEPT ![t] = "test_cache"]
    /\ UNCHANGED <<execVars, coordVars, concVars, wfVars, get_count>>

\* line 259: if hasattr(self, '_cache') and cache_key in self._cache
TestCache(t) ==
    /\ t_pc[t] = "test_cache"
    /\ t_pc' = [t_pc EXCEPT ![t] = IF CacheHit(KeyOf(t)) THEN "return_cached" ELSE "fetch"]
    /\ UNCHANGED <<execVars, coordVars, concVars, wfVars, t_args, t_result, t_ret, get_count>>

\* line 261: return self._cache[cache_key]
ReturnCached(t) ==
    /\ t_pc[t] = "return_cached"
    /\ t_ret' = [t_ret EXCEPT ![t] = IF KeyOf(t) \in DOMAIN cache
                                      THEN cache[KeyOf(t)]
                                      ELSE KeyErrorRaised]
    /\ t_pc' = [t_pc EXCEPT ![t] = "returned"]
    /\ UNCHANGED <<execVars, coordVars, concVars, wfVars, t_args, t_result, get_count>>

\* lines 263-267: result = self.network_handler.get(...), the fallback
\* lookup and the test "if result is not None"
Fetch(t) ==
    \E out \in ExecutorResults :
        LET res == IF out = None THEN FallbackEntry(t_args[t].url) ELSE out
        IN  /\ t_pc[t] = "fetch"
            /\ out # None => GetCount(KeyOf(t)) < MaxGetsPerKey
            /\ get_count' = IF out # None
                             THEN Put(get_count, KeyOf(t), GetCount(KeyOf(t)) + 1)
                             ELSE get_count
            /\ t_result' = [t_result EXCEPT ![t] = res]
            /\ t_pc' = [t_pc EXCEPT ![t] = IF ShouldCache(res) THEN "test_attr" ELSE "return"]
            /\ UNCHANGED <<execVars, coordVars, concVars, wfVars, t_args, t_ret>>

\* line 268: if not hasattr(self, '_cache')
TestAttr(t) ==
    /\ t_pc[t] = "test_attr"
    /\ t_pc' = [t_pc EXCEPT ![t] = IF ~has_cache THEN "create" ELSE "store"]
    /\ UNCHANGED <<execVars, coordVars, concVars, wfVars, t_args, t_result, t_ret, get_count>>

\* line 269: self._cache = {}
CreateCache(t) ==
    /\ t_pc[t] = "create"
    /\ cache' = EmptyDict
    /\ has_cache' = TRUE
    /\ t_pc' = [t_pc EXCEPT ![t] = "store"]
    /\ UNCHANGED <<execVars, fallback_data, fetched, last, concVars, wfVars,
                   t_args, t_result, t_ret, get_count>>

\* line 270: self._cache[cache_key] = result
Store(t) ==
    /\ t_pc[t] = "store"
    /\ cache' = Put(cache, KeyOf(t), t_result[t])
    /\ t_pc' = [t_pc EXCEPT ![t] = "return"]
    /\ UNCHANGED <<execVars, fallback_data, has_cache, fetched, last, concVars, wfVars,
                   t_args, t_result, t_ret, get_count>>

\* line 272: return result if result is not None else {...}
ReturnResult(t) ==
    /\ t_pc[t] = "return"
    /\ t_ret' = [t_ret EXCEPT ![t] = OrNoData(t_result[t])]
    /\ t_pc' = [t_pc EXCEPT ![t] = "returned"]
    /\ UNCHANGED <<execVars, coordVars, concVars, wfVars, t_args, t_result, get_count>>

RaceNext ==
    \E t \in Threads :
        \/ Enter(t)
        \/ TestCache(t)
        \/ ReturnCached(t)
        \/ Fetch(t)
        \/ TestAttr(t)
        \/ CreateCache(t)
        \/ Store(t)
        \/ ReturnResult(t)

RaceSpec == CoordInit /\ [][RaceNext]_vars

\* ------------------------------------------------------ WorkflowManager
\* Tickets and jobs are kept with the fields the operations test: the
\* status of a ticket; the ticket, the type and the status of a job.
\* uuid4 identifiers are fresh: the next unused number.
MaxTicketsBound == 2
MaxJobs == 2

\* configurations json.load can return: a limit and the default job types,
\* the defaults, or a file that sets neither key
EmptyConfig == [k \in {} |-> 0]
WfConfigs ==
    {[max_tickets |-> n, job_types |-> DefaultJobTypes] : n \in 0..MaxTicketsBound}
        \cup {DefaultConfig, EmptyConfig}

\* self.config.get("max_tickets", 100)
ConfigMaxTickets ==
    IF "max_tickets" \in DOMAIN wf_config THEN wf_config.max_tickets ELSE DefaultMaxTickets

\* self.config.get("job_types", [])
ConfigJobTypes ==
    IF "job_types" \in DOMAIN wf_config THEN wf_config.job_types ELSE {}

\* variant of the limit test: one ticket more is let in
TicketLimitReachedStrict == Cardinality(DOMAIN tickets) > ConfigMaxTickets

\* len(self.tickets) >= self.config.get("max_tickets", 100)
TicketLimitReached == Cardinality(DOMAIN tickets) >= ConfigMaxTickets

\* the jobs of a ticket in the job table js
TicketJobs(js, tid) == {j \in DOMAIN js : js[j].ticket_id = tid}

\* the arguments callers pass
TicketIdArgs == 1..(MaxTicketsBound + 2)
JobIdArgs == 1..(MaxJobs + 1)
JobTypeArgs == {"processing", "validation", "cleanup"}

\* create_ticket(title, description)
CreateTicket ==
    IF TicketLimitReached
    THEN /\ wf_last' = [op |-> "create_ticket", arg |-> 0, job_type |-> "", raised |-> TRUE]
         /\ UNCHANGED <<execVars, coordVars, raceVars, concVars, wf_config, tickets, jobs>>
    ELSE LET ticket_id == Cardinality(DOMAIN tickets) + 1
         IN  /\ ticket_id <= MaxTicketsBound + 1
             /\ tickets' = Put(tickets, ticket_id, [status |-> "created"])
             /\ wf_last' = [op |-> "create_ticket", arg |-> ticket_id, job_type |-> "",
                            raised |-> FALSE]
             /\ UNCHANGED <<execVars, coordVars, raceVars, concVars, wf_config, jobs>>

\* variant of create_job's validation: the job type is not looked at
CreateJobRejectsTicketOnly(ticket_id, job_type) == ticket_id \notin DOMAIN tickets

\* the two tests of create_job that raise ValueError
CreateJobRejects(ticket_id, job_type) ==
    ticket_id \notin DOMAIN tickets \/ job_type \notin ConfigJobTypes

\* create_job(ticket_id, job_type)
CreateJob ==
    \E ticket_id \in TicketIdArgs, job_type \in JobTypeArgs :
        IF CreateJobRejects(ticket_id, job_type)
        THEN /\ wf_last' = [op |-> "create_job", arg |-> ticket_id, job_type |-> job_type,
                            raised |-> TRUE]
             /\ UNCHANGED <<execVars, coordVars, raceVars, concVars, wf_config, tickets, jobs>>
        ELSE LET job_id == Cardinality(DOMAIN jobs) + 1
             IN  /\ job_id <= MaxJobs
                 /\ jobs' = Put(jobs, job_id, [ticket_id |-> ticket_id, job_type |-> job_type,
                                               status |-> "pending"])
                 /\ wf_last' = [op |-> "create_job", arg |-> ticket_id, job_type |-> job_type,
                                raised |-> FALSE]
                 /\ UNCHANGED <<execVars, coordVars, raceVars, concVars, wf_config, tickets>>

\* process_job(job_id, result)
ProcessJob ==
    \E job_id \in JobIdArgs :
        IF job_id \notin DOMAIN jobs
        THEN /\ wf_last' = [op |-> "process_job", arg |-> job_id, job_type |-> "",
                            raised |-> TRUE]
             /\ UNCHANGED <<execVars, coordVars, raceVars, concVars, wf_config, tickets, jobs>>
        ELSE LET ticket_id == jobs[job_id].ticket_id
                 done == [jobs EXCEPT ![job_id].status = "completed"]
             IN  /\ jobs' = done
                 /\ tickets' = IF \A j \in TicketJobs(done, ticket_id) : done[j].status = "completed"
                               THEN [tickets EXCEPT ![ticket_id].status = "completed"]
                               ELSE tickets
                 /\ wf_last' = [op |-> "process_job", arg |-> job_id, job_type |-> "",
                                raised |-> FALSE]
                 /\ UNCHANGED <<execVars, coordVars, raceVars, concVars, wf_config>>

WorkflowNext ==
    \/ CreateTicket
    \/ CreateJob
    \/ ProcessJob

\* WorkflowManager(config_path) with any of the configurations
WorkflowInit ==
    /\ NetworkStart /\ max_retries = 1 /\ base_delay = 1
    /\ \E cfg \in WfConfigs : WorkflowStart(cfg)

WorkflowSpec == WorkflowInit /\ [][WorkflowNext]_vars

\* ------------------------------------------------- vocabulary of the claims
Returned == pc = "done"
Calls == Len(transport_log)
IsResponse(o) == o.kind = "response"
IsRetryableFailure(o) == o.kind \in {"Timeout", "ConnectionError"}
IsDefinitiveError(o) == IsResponse(o) /\ o.status_code >= 400 /\ o.status_code # 429
SleepsAfter(i) == {j \in 1..Len(sleep_log) : sleep_log[j].after = i}
AllOf(P(_), n) == \A i \in 1..n : P(transport_log[i])

\* C1: one make_request call invokes the transport at most max_retries + 1
\* times, whatever the transport does.
C1_AtMostMaxRetriesPlusOne == Calls <= max_retries + 1

C1_Witness ==
    /\ Returned /\ max_retries >= 1 /\ Calls = max_retries + 1
    /\ \E i \in 1..Calls : IsResponse(transport_log[i])
    /\ \E i \in 1..Calls : ~IsResponse(transport_log[i])

\* C2: when the first k <= max_retries attempts raise a timeout or a
\* connection error and attempt k + 1 answers with a status below 400, the
\* call returns that success body after exactly k + 1 invocations, and the
\* sleeps are base_delay * 2^(i-1) for i = 1..k, one after each failure; the
\* call never returns while only such failures (at most max_retries of them)
\* have been seen.
C2_RetryThenSuccess ==
    \A k \in 0..max_retries :
        /\ (pc # "idle" /\ Calls = k /\ AllOf(IsRetryableFailure, k))
              => /\ pc = "loop"
                 /\ sleep_log = [i \in 1..k |-> [after |-> i, delay |-> base_delay * (2 ^ (i - 1))]]
        /\ (Calls >= k + 1 /\ AllOf(IsRetryableFailure, k)
               /\ IsResponse(transport_log[k + 1]) /\ transport_log[k + 1].status_code < 400)
              => /\ Returned
                 /\ Calls = k + 1
                 /\ result = SuccessPayload(transport_log[k + 1])
                 /\ sleep_log = [i \in 1..k |-> [after |-> i, delay |-> base_delay * (2 ^ (i - 1))]]

C2_Witness ==
    /\ Returned /\ Calls = 3
    /\ transport_log[1].kind = "Timeout" /\ transport_log[2].kind = "ConnectionError"
    /\ IsResponse(transport_log[3]) /\ transport_log[3].status_code = 200
    /\ result = [status |-> "success"]
    /\ Len(sleep_log) = 2 /\ sleep_log[2].delay = 2 * base_delay

\* C3: when every attempt times out, the call returns None after exactly
\* max_retries + 1 invocations: it has returned when, and only when, that
\* many timeouts have been seen.
C3_AlwaysTimeout ==
    (pc # "idle" /\ AllOf(LAMBDA o : o.kind = "Timeout", Calls))
        => /\ Returned <=> (Calls = max_retries + 1)
           /\ Returned => (result = None)

C3_Witness ==
    /\ Returned /\ max_retries >= 1 /\ Calls = max_retries + 1
    /\ AllOf(LAMBDA o : o.kind = "Timeout", Calls)
    /\ result = None

\* C4: a response with status >= 400 other than 429 ends the call at once
\* with None: it is the last invocation and no sleep follows it, also when
\* attempts remain.
C4_DefinitiveFailure ==
    \A i \in 1..Calls :
        IsDefinitiveError(transport_log[i])
            => /\ Returned /\ result = None
               /\ i = Calls
               /\ SleepsAfter(i) = {}

C4_Witness ==
    /\ Returned /\ Calls = 2 /\ max_retries >= 2
    /\ IsDefinitiveError(transport_log[2]) /\ transport_log[2].status_code = 500
    /\ result = None

\* ------------------------------------------------ 429 responses in the claims
Is429(o) == IsResponse(o) /\ o.status_code = 429
HasRetryAfter(o) == "Retry-After" \in DOMAIN o.headers
\* a 429 whose Retry-After is a non-negative whole number of seconds
WholeRetryAfter(o) == Is429(o) /\ HasRetryAfter(o) /\ o.headers["Retry-After"] \in {"0", "1", "2"}
WholeSeconds(o) == CASE o.headers["Retry-After"] = "0" -> 0
                     [] o.headers["Retry-After"] = "1" -> 1
                     [] o.headers["Retry-After"] = "2" -> 2
\* a 429 whose Retry-After is absent or is not a number
AbsentOrNonNumericRetryAfter(o) ==
    Is429(o) /\ (~HasRetryAfter(o) \/ o.headers["Retry-After"] = "soon")
\* a 429 after which the code sleeps
SleepableRateLimit(o) == Is429(o) /\ (~HasRetryAfter(o) \/ WholeRetryAfter(o))

C5_Body ==
    (pc # "idle" /\ Calls >= 1 /\ WholeRetryAfter(transport_log[1]))
        => /\ Len(sleep_log) >= 1
           /\ sleep_log[1] = [after |-> 1,
                              delay |-> WholeSeconds(transport_log[1]) * TicksPerSecond]
           /\ (Calls = 1 => pc = "loop")
           /\ (Calls >= 2 /\ IsResponse(transport_log[2]) /\ transport_log[2].status_code = 200)
                 => /\ Returned /\ Calls = 2
                    /\ result = SuccessPayload(transport_log[2])
                    /\ Len(sleep_log) = 1

\* C5 as claimed: for every handler configuration, a 429 with a numeric
\* Retry-After of r seconds followed by a 200 gives the success body after
\* exactly two invocations with one sleep of r seconds between them.
C5_Original == C5_Body

\* C5 as amended: the same for every configuration with max_retries >= 1 (with
\* max_retries = 0 the 429 uses up the only attempt and the call returns None
\* after one invocation and one sleep).
C5_RateLimitThenSuccess == (max_retries >= 1) => C5_Body

C5_Witness ==
    /\ Returned /\ Calls = 2 /\ max_retries >= 1
    /\ WholeRetryAfter(transport_log[1]) /\ transport_log[1].headers["Retry-After"] = "1"
    /\ IsResponse(transport_log[2]) /\ transport_log[2].status_code = 200
    /\ result = [status |-> "success"]
    /\ sleep_log = <<[after |-> 1, delay |-> TicksPerSecond]>>

\* number of timeouts and connection errors among the first i invocations
RetryableUpTo(i) == Cardinality({m \in 1..i : IsRetryableFailure(transport_log[m])})

\* C6 as claimed: the sleep after the j-th timeout or connection error of a
\* call is base_delay * 2^(j-1), where j does not count the 429 responses that
\* came before it.
C6_Original ==
    \A j \in 1..Len(sleep_log) :
        LET i == sleep_log[j].after IN
        (/\ IsRetryableFailure(transport_log[i])
         /\ \A m \in 1..i : IsRetryableFailure(transport_log[m]) \/ Is429(transport_log[m]))
            => sleep_log[j].delay = base_delay * (2 ^ (RetryableUpTo(i) - 1))

\* C6 as amended: the sleep after a timeout or connection error raised by the
\* n-th transport invocation of a call is base_delay * 2^(n-1), where n counts
\* every invocation of the call, 429 responses included; there is exactly one
\* such sleep when n <= max_retries and none after invocation max_retries + 1.
C6_BackoffCountsEveryAttempt ==
    \A i \in 1..Calls :
        IsRetryableFailure(transport_log[i])
            => IF i <= max_retries
               THEN \E j \in 1..Len(sleep_log) :
                        /\ SleepsAfter(i) = {j}
                        /\ sleep_log[j].delay = base_delay * (2 ^ (i - 1))
               ELSE SleepsAfter(i) = {}

C6_Witness ==
    /\ Calls >= 2 /\ Is429(transport_log[1]) /\ transport_log[2].kind = "Timeout"
    /\ Len(sleep_log) = 2
    /\ sleep_log[2] = [after |-> 2, delay |-> 2 * base_delay]

\* C7 as claimed: against a transport that answers 429 on every attempt the
\* call never returns, whatever max_retries is.
C7_Original ==
    (Calls >= 1 /\ AllOf(SleepableRateLimit, Calls)) => ~Returned

\* C7 as amended: against a transport that answers 429 on every attempt the
\* call sleeps after each response and returns None after exactly
\* max_retries + 1 invocations: it has returned when, and only when, that
\* many 429 responses have been seen.
C7_RateLimitBounded ==
    (pc # "idle" /\ AllOf(SleepableRateLimit, Calls))
        => /\ Returned <=> (Calls = max_retries + 1)
           /\ Returned => (result = None)
           /\ Len(sleep_log) = Calls

C7_Witness ==
    /\ Returned /\ max_retries >= 1 /\ Calls = max_retries + 1
    /\ AllOf(SleepableRateLimit, Calls)
    /\ Len(sleep_log) = Calls /\ result = None

LeadsToFurtherAttempt(o) ==
    o.kind \in {"Timeout", "ConnectionError", "RequestException"} \/ Is429(o)
EndsCallAt(i) ==
    /\ Returned /\ result = None
    /\ i = Calls
    /\ SleepsAfter(i) = {}

\* C8 as claimed: only a timeout, a connection error or a 429 is followed by
\* a further attempt; any other request-library error and any other exception
\* end the call with None right after the attempt, with no sleep.
C8_Original ==
    /\ \A i \in 1..(Calls - 1) :
           IsRetryableFailure(transport_log[i]) \/ Is429(transport_log[i])
    /\ \A i \in 1..Calls :
           transport_log[i].kind \in {"RequestException", "Exception"} => EndsCallAt(i)

\* C8 as amended: only a timeout, a connection error, any other
\* request-library error (RequestException) or a 429 is followed by a further
\* attempt; a RequestException on attempt n <= max_retries is followed by the
\* backoff sleep and does not end the call; an exception outside the request
\* library ends the call with None right after the attempt, with no sleep.
C8_OnlyUnexpectedEndsCall ==
    /\ \A i \in 1..(Calls - 1) : LeadsToFurtherAttempt(transport_log[i])
    /\ \A i \in 1..Calls :
           transport_log[i].kind = "Exception" => EndsCallAt(i)
    /\ \A i \in 1..Calls :
           (transport_log[i].kind = "RequestException" /\ i <= max_retries)
               => /\ ~(Returned /\ Calls = i)
                  /\ \E j \in SleepsAfter(i) : sleep_log[j].delay = base_delay * (2 ^ (i - 1))

C8_Witness ==
    /\ Returned /\ Calls = 2 /\ max_retries >= 2
    /\ transport_log[1].kind = "RequestException"
    /\ transport_log[2].kind = "Exception"
    /\ result = None /\ Len(sleep_log) = 1

\* C9 as claimed: after a 429 whose Retry-After is absent or is not a number,
\* the call sleeps for base_delay and, when an attempt remains, goes on to
\* retry.
C9_Original ==
    \A i \in 1..Calls :
        AbsentOrNonNumericRetryAfter(transport_log[i])
            => /\ \E j \in SleepsAfter(i) : sleep_log[j].delay = base_delay
               /\ (i <= max_retries) => ~(Returned /\ Calls = i)

\* C10 as claimed: a response with status below 400 makes the call return a
\* payload that is not None: the parsed JSON value when the body parses (null
\* included), otherwise the wrapper {status: "success", data: <raw text>}.
C10_Original ==
    \A i \in 1..Calls :
        (IsResponse(transport_log[i]) /\ transport_log[i].status_code < 400)
            => /\ Returned /\ i = Calls
               /\ result # None
               /\ result = IF JsonLoads(transport_log[i].text).ok
                           THEN JsonLoads(transport_log[i].text).value
                           ELSE [status |-> "success", data |-> transport_log[i].text]

\* C11: when the transport answers 200 on the first attempt, make_request,
\* and get/post/put/delete alike, returns the parsed body after exactly one
\* transport invocation and without any sleep.
C11_FirstAttemptSuccess ==
    (Calls >= 1 /\ IsResponse(transport_log[1]) /\ transport_log[1].status_code = 200)
        => /\ Returned /\ Calls = 1
           /\ sleep_log = <<>>
           /\ call.entry \in EntryPoints
           /\ JsonLoads(transport_log[1].text).ok
                 => result = JsonLoads(transport_log[1].text).value

C11_Witness ==
    /\ Returned /\ Calls = 1 /\ call.entry = "post" /\ call.method = "POST"
    /\ transport_log[1].status_code = 200
    /\ transport_log[1].text = "{\"id\": 123}"
    /\ result = [id |-> 123] /\ sleep_log = <<>>

\* C12: with max_retries = 0 a call invokes the transport exactly once,
\* whatever the first attempt produces: after one invocation it has returned.
C12_ZeroRetriesOneAttempt ==
    (max_retries = 0 /\ pc # "idle")
        => /\ Calls <= 1
           /\ Returned <=> (Calls = 1)

C12_Witness ==
    /\ max_retries = 0 /\ Returned /\ Calls = 1
    /\ Is429(transport_log[1]) /\ Len(sleep_log) = 1 /\ result = None

\* ------------------------------------------ coordinator calls in the claims
IsGet == last.op = "get_with_cache"
IsWithFallback == last.op = "with_fallback"
LastKey == CacheKey(last.url, last.params)
NoDataMarker == [status |-> "error", message |-> "No data available"]

\* C13: with_fallback and get_with_cache always return a structured payload,
\* never None, whatever the executor returns and whatever calls came before.
C13_AlwaysStructured ==
    (IsGet \/ IsWithFallback)
        => /\ last.ret # None
           /\ DOMAIN last.ret \subseteq
                  {"status", "message", "fallback", "id", "data", "tickets"}

C13_Witness ==
    /\ IsGet /\ last.net = 1 /\ last.outcome = None
    /\ last.url \notin DOMAIN fallback_data
    /\ last.ret = NoDataMarker

\* C14 as claimed: with_fallback returns the executor's payload when there is
\* one; on absence it returns the caller's fallback payload, whatever payload
\* was supplied (the empty mapping included), and the marker only when none
\* was supplied.
C14_Original ==
    IsWithFallback
        => last.ret = IF last.outcome # None THEN last.outcome
                      ELSE IF last.fallback # None THEN last.fallback
                      ELSE RequestFailedMarker

C16_Original ==
    (IsGet /\ last.net = 1 /\ last.outcome = None /\ last.url \in DOMAIN fallback_data)
        => LastKey \notin DOMAIN cache

\* C17 as claimed: a get_with_cache(url) call whose executor returns absence,
\* and for whose fingerprint no fetch ever succeeded, returns the payload
\* most recently registered for url, also after an earlier failed call
\* returned a previously registered payload.
C17_Original ==
    (IsGet /\ last.outcome = None /\ LastKey \notin DOMAIN fetched
         /\ last.url \in DOMAIN fallback_data)
        => last.ret = fallback_data[last.url]

\* C18: with no cache entry, an executor absence and no fallback registered
\* for the URL, get_with_cache returns the "No data available" marker and
\* leaves the cache and the fallback table as they were, so the key is still
\* not cached.
C18_NoDataLeavesStateAlone ==
    [][(last'.op = "get_with_cache" /\ last'.net = 1 /\ last'.outcome = None
          /\ last'.url \notin DOMAIN fallback_data)
        => /\ last'.ret = NoDataMarker
           /\ cache' = cache
           /\ fallback_data' = fallback_data
           /\ CacheKey(last'.url, last'.params) \notin DOMAIN cache']_vars

C18_Witness ==
    /\ IsGet /\ last.net = 1 /\ last.outcome = None
    /\ last.url \notin DOMAIN fallback_data /\ DOMAIN fallback_data # {}
    /\ last.ret = NoDataMarker
    /\ LastKey \notin DOMAIN cache /\ DOMAIN cache # {}

\* C19: the fallback table is consulted by URL alone: a get_with_cache call
\* with no cache entry for its fingerprint and an executor absence returns
\* the payload registered for its URL, whatever its params, and never the
\* payload registered for another URL.
C19_FallbackByUrl ==
    (IsGet /\ last.net = 1 /\ last.outcome = None)
        => last.ret = IF last.url \in DOMAIN fallback_data
                      THEN fallback_data[last.url]
                      ELSE NoDataMarker

C19_Witness ==
    /\ IsGet /\ last.net = 1 /\ last.outcome = None
    /\ last.params = [page |-> "1"]
    /\ DOMAIN fallback_data = {last.url}
    /\ last.ret = [tickets |-> "fallback-123"]

\* C20 as claimed: after set_fallback_data(u, F) with F carrying no status
\* and a get_with_cache(u) that fetched successfully, a get_with_cache(u)
\* whose network returns absence returns a payload with status "error", so
\* that the calling workflow reports "degraded".
C20_Original ==
    (IsGet /\ last.outcome = None /\ LastKey \in DOMAIN fetched
         /\ last.url \in DOMAIN fallback_data
         /\ "status" \notin DOMAIN fallback_data[last.url])
        => /\ "status" \in DOMAIN last.ret /\ last.ret.status = "error"
           /\ WorkflowFetchTickets(last.ret).status = "degraded"

\* C21: across any sequential use of one coordinator, a cache entry, once
\* created, is never removed and its value never changes.
C21_CacheEntriesNeverChange ==
    [][\A k \in DOMAIN cache : k \in DOMAIN cache' /\ cache'[k] = cache[k]]_vars

\* a get_with_cache on a cached key whose network would now answer with
\* another payload, and whose URL has meanwhile got a fallback entry
C21_Witness ==
    /\ IsGet /\ LastKey \in DOMAIN cache
    /\ last.outcome # None /\ last.outcome # cache[LastKey]
    /\ last.url \in DOMAIN fallback_data
    /\ fallback_data[last.url] # cache[LastKey]
    /\ Cardinality(DOMAIN cache) >= 2

\* C22 as claimed: two get_with_cache calls with the same URL whose params
\* denote the same mapping (absent and empty, or the same items in another
\* order) use one cache entry: after the first fetched successfully, the
\* second issues no network call.
C22_Original ==
    [][(last'.op = "get_with_cache"
          /\ \E p \in FingerprintParams :
                /\ ParamsMapping(p) = ParamsMapping(last'.params)
                /\ CacheKey(last'.url, p) \in DOMAIN fetched)
         => last'.net = 0]_vars

\* C23 as claimed: under any interleaving of two get_with_cache calls with
\* different fingerprints whose fetches both succeed, after both calls have
\* returned the cache holds both results.
C23_Original ==
    (/\ \A t \in Threads : t_pc[t] = "returned" /\ t_result[t] # None
     /\ KeyOf(1) # KeyOf(2)
     /\ \A t \in Threads : GetCount(KeyOf(t)) = 1)
        => \A t \in Threads :
              has_cache /\ KeyOf(t) \in DOMAIN cache /\ cache[KeyOf(t)] = t_result[t]

\* C24 as claimed: under any interleaving of get_with_cache calls, at most
\* one successful network GET is performed per fingerprint.
C24_Original == \A k \in DOMAIN get_count : get_count[k] <= 1

\* what a make_request call that runs alone has done once the transport
\* has given it the outcomes in log: where it is, what it returns, its sleeps
RECURSIVE Alone(_)
Alone(log) ==
    IF log = <<>>
    THEN [pc |-> AfterLoopTest(0), n |-> 0, result |-> None, sleep_log |-> <<>>]
    ELSE LET before == Alone(SubSeq(log, 1, Len(log) - 1))
             o == log[Len(log)]
             a == before.n + 1
             stop(res) == [pc |-> "done", n |-> a, result |-> res,
                           sleep_log |-> before.sleep_log]
             goOn(sleeps) == [pc |-> AfterLoopTest(a), n |-> a, result |-> None,
                              sleep_log |-> before.sleep_log \o sleeps]
         IN  CASE IsResponse(o) /\ IsSuccess(o) -> stop(SuccessPayload(o))
               [] IsResponse(o) /\ ~IsSuccess(o) /\ IsRateLimited(o)
                    /\ RetryAfter(o).ok /\ RetryAfter(o).val >= 0
                    -> goOn(<<[after |-> a, delay |-> RetryAfter(o).val * TicksPerSecond]>>)
               [] o.kind \in {"Timeout", "ConnectionError", "RequestException"}
                    -> goOn(HandleRetry(a))
               [] OTHER -> stop(None)

\* the call with frame f is where a call running alone would be after the
\* same outcomes, with the same result and the same sleeps
AsAlone(f) ==
    IF f.pc = "idle"
    THEN f = IdleFrame
    ELSE /\ Len(f.transport_log) <= max_retries + 1
         /\ LET alone == Alone(f.transport_log)
            IN  /\ f.pc = alone.pc
                /\ f.result = alone.result
                /\ f.sleep_log = alone.sleep_log

\* C25: make_request never changes max_retries, base_delay or timeout, and
\* when two make_request calls run interleaved on one NetworkHandler, the
\* result, the number of transport invocations and the sleeps of each depend
\* only on the outcomes of its own attempts: they are those of a call that
\* runs alone and gets the same outcomes.
C25_NoSharedMutableState ==
    [][/\ config' = config
       /\ AsAlone(RunningFrame)'
       /\ AsAlone(saved)']_vars

\* a call that made both its attempts while the other call was suspended
\* between its first failure and its retry, with different outcomes
C25_Witness ==
    /\ saved.pc = "loop" /\ Len(saved.transport_log) = 1
    /\ saved.sleep_log # <<>>
    /\ pc = "done" /\ Len(transport_log) = 2
    /\ transport_log[1].kind = "response"
    /\ sleep_log # saved.sleep_log
    /\ result # None

\* C26: with_fallback and get_with_cache leave the fallback table unchanged
\* for every outcome; set_fallback_data(url, payload) sets the entry of that
\* url and leaves the cache and every other fallback entry unchanged.
C26_FallbackTableFrame ==
    [][/\ last'.op \in {"with_fallback", "get_with_cache"}
            => fallback_data' = fallback_data
       /\ last'.op = "set_fallback_data"
            => /\ cache' = cache
               /\ DOMAIN fallback_data' = DOMAIN fallback_data \cup {last'.url}
               /\ fallback_data'[last'.url] = last'.fallback
               /\ \A u \in DOMAIN fallback_data \ {last'.url} :
                      fallback_data'[u] = fallback_data[u]]_vars

C26_Witness ==
    /\ last.op = "set_fallback_data"
    /\ DOMAIN fallback_data = Urls
    /\ \E u \in Urls : fallback_data[u] # last.fallback
    /\ DOMAIN cache # {}

\* C27: with_fallback neither reads nor writes the cache or the fallback
\* table: it leaves both unchanged, returns the generic error marker when it
\* gets no fallback argument and make_request returns None, whatever is
\* stored for the URL, and returns the payload of a successful request
\* without creating a cache entry.
C27_WithFallbackIgnoresStoredState ==
    [][last'.op = "with_fallback"
          => /\ cache' = cache
             /\ fallback_data' = fallback_data
             /\ (last'.fallback = None /\ last'.outcome = None)
                    => last'.ret = RequestFailedMarker
             /\ last'.outcome # None => last'.ret = last'.outcome]_vars

C27_Witness ==
    /\ IsWithFallback /\ last.fallback = None /\ last.outcome = None
    /\ last.url \in DOMAIN fallback_data
    /\ Truthy(fallback_data[last.url])
    /\ CacheKey(last.url, None) \in DOMAIN cache
    /\ last.ret = RequestFailedMarker

\* C28 as claimed: make_request never sleeps after its last transport
\* invocation: once the call has returned, every sleep it made, backoff or
\* rate-limit, was followed by another attempt.
C28_Original ==
    Returned => \A j \in 1..Len(sleep_log) : sleep_log[j].after < Calls

\* C29 as claimed: in every state reachable by create_ticket, create_job
\* and process_job, a ticket whose status is "completed" has only jobs
\* whose status is "completed".
C29_Original ==
    \A tid \in DOMAIN tickets :
        tickets[tid].status = "completed"
            => \A j \in TicketJobs(jobs, tid) : jobs[j].status = "completed"

\* C30: the number of tickets never exceeds the configured max_tickets;
\* create_ticket at the limit raises ValueError and leaves the tickets and
\* the jobs unchanged.
C30_TicketLimit ==
    [][/\ Cardinality(DOMAIN tickets') <= ConfigMaxTickets'
       /\ (wf_last'.op = "create_ticket"
             /\ Cardinality(DOMAIN tickets) >= ConfigMaxTickets)
            => /\ wf_last'.raised
               /\ tickets' = tickets
               /\ jobs' = jobs]_vars

C30_Witness ==
    /\ wf_last.op = "create_ticket" /\ wf_last.raised
    /\ ConfigMaxTickets = 2
    /\ Cardinality(DOMAIN tickets) = 2
    /\ \E tid \in DOMAIN tickets : tickets[tid].status = "completed"
    /\ \E j \in DOMAIN jobs : jobs[j].status = "pending"

\* C31: in every reachable state each job refers to an existing ticket and
\* has a configured job type; create_job with an unknown ticket_id or a job
\* type outside the configured job_types, and process_job with an unknown
\* job_id, raise ValueError and change no ticket and no job.
C31_JobsAreValid ==
    [][/\ \A j \in DOMAIN jobs' :
            /\ jobs'[j].ticket_id \in DOMAIN tickets'
            /\ jobs'[j].job_type \in ConfigJobTypes'
       /\ (wf_last'.op = "create_job"
             /\ (wf_last'.arg \notin DOMAIN tickets
                    \/ wf_last'.job_type \notin ConfigJobTypes))
            => wf_last'.raised /\ tickets' = tickets /\ jobs' = jobs
       /\ (wf_last'.op = "process_job" /\ wf_last'.arg \notin DOMAIN jobs)
            => wf_last'.raised /\ tickets' = tickets /\ jobs' = jobs]_vars

\* create_job refused an unconfigured type for an existing ticket that
\* already has a job, under a configuration that does set job types
C31_Witness ==
    /\ wf_last.op = "create_job" /\ wf_last.raised
    /\ wf_last.arg \in DOMAIN tickets
    /\ wf_last.job_type \notin ConfigJobTypes
    /\ ConfigJobTypes # {}
    /\ TicketJobs(jobs, wf_last.arg) # {}

TypeOK ==
    /\ max_retries \in 0..MaxRetriesBound
    /\ base_delay \in 1..MaxBaseDelay
    /\ pc \in {"idle", "loop", "done"}
    /\ attempt = Len(transport_log)
    /\ (pc = "done") => result \in {None} \cup {SuccessPayload(r) : r \in SuccessResponses}
    /\ DOMAIN cache \subseteq {CacheKey(u, p) : u \in Urls, p \in ParamsSet \cup FingerprintParams}
    /\ DOMAIN fallback_data \subseteq Urls
    /\ timeout = DefaultTimeout * TicksPerSecond
    /\ has_cache \in BOOLEAN
    /\ DOMAIN cache # {} => has_cache
    /\ \A t \in Threads :
          t_pc[t] \in {"idle", "test_cache", "return_cached", "fetch", "test_attr",
                       "create", "store", "return", "returned"}
    /\ \A k \in DOMAIN get_count : get_count[k] \in 1..MaxGetsPerKey
    /\ running \in Threads
    /\ saved.pc \in {"idle", "loop", "done"}
    /\ saved.attempt = Len(saved.transport_log)
    /\ DOMAIN tickets = 1..Cardinality(DOMAIN tickets)
    /\ Cardinality(DOMAIN tickets) <= MaxTicketsBound + 1
    /\ DOMAIN jobs = 1..Cardinality(DOMAIN jobs)
    /\ Cardinality(DOMAIN jobs) <= MaxJobs
    /\ \A j \in DOMAIN jobs : jobs[j].status \in {"pending", "completed"}
    /\ \A i \in DOMAIN tickets : tickets[i].status \in {"created", "completed"}
====
